---- MODULE Spec2Model ----
(***************************************************************************)
(* A model of utils/cleaner.py: clean_dataframe(df, config), the pipeline  *)
(* that normalizes column names, trims whitespace, handles nulls, prunes   *)
(* blank rows/columns, removes duplicates, infers types, makes the frame   *)
(* Arrow-compatible and detects/drops outliers, building a report.         *)
(*                                                                         *)
(* Text is a sequence of one-character strings, so that strip, the column  *)
(* name normalization, the identifier pattern and numeric parsing are      *)
(* computed character by character.  A number is held as an integer in     *)
(* units of 1/Scale, so that the means and medians of a column of integers *)
(* are exact.  A cell is a record [k, n, s]: k = "na" is the missing       *)
(* marker (None / NaN / pd.NA), k = "num" a number n, k = "str" a text s.  *)
(* A table is [cols, rows]: cols a sequence of [name, dtype], rows a       *)
(* sequence of [idx, cells], idx being the pandas index label of the row.  *)
(***************************************************************************)
EXTENDS Integers, Sequences, FiniteSets, TLC

VARIABLES pc, df, prev, cfg, report, calls

vars == <<pc, df, prev, cfg, report, calls>>

-----------------------------------------------------------------------------
(* Bounds of the model.                                                    *)

MaxRows == 3
MaxCols == 2
MaxInferRows == 10
MaxCalls == 2

-----------------------------------------------------------------------------
(* Generic helpers on sequences and integers.                              *)

Range(s) == {s[i] : i \in DOMAIN s}

Max2(a, b) == IF a >= b THEN a ELSE b

RECURSIVE Gcd(_, _)
Gcd(a, b) == IF b = 0 THEN a ELSE Gcd(b, a % b)

Lcm(a, b) == (a * b) \div Gcd(a, b)

RECURSIVE LcmUpTo(_)
LcmUpTo(n) == IF n <= 1 THEN 1 ELSE Lcm(n, LcmUpTo(n - 1))

\* Numbers are integers in units of 1/Scale: every mean of at most MaxRows
\* integers is then an integer number of units.
Scale == LcmUpTo(MaxRows)

RECURSIVE SumSeq(_)
SumSeq(s) == IF s = <<>> THEN 0 ELSE Head(s) + SumSeq(Tail(s))

\* The subsequence of s at the positions i with keep[i], order kept.
RECURSIVE SelectIdx(_, _, _)
SelectIdx(s, keep, i) ==
    IF i > Len(s) THEN <<>>
    ELSE (IF keep[i] THEN <<s[i]>> ELSE <<>>) \o SelectIdx(s, keep, i + 1)

\* s sorted ascending (insertion sort, as numpy sorts the values).
RECURSIVE InsertSorted(_, _)
InsertSorted(x, s) ==
    IF s = <<>> THEN <<x>>
    ELSE IF x <= Head(s) THEN <<x>> \o s
    ELSE <<Head(s)>> \o InsertSorted(x, Tail(s))

RECURSIVE SortInts(_)
SortInts(s) == IF s = <<>> THEN <<>> ELSE InsertSorted(Head(s), SortInts(Tail(s)))

-----------------------------------------------------------------------------
(* Text: str.strip, str.lower, character classes.                          *)

UpperSeq == <<"A","B","C","D","E","F","G","H","I","J","K","L","M",
              "N","O","P","Q","R","S","T","U","V","W","X","Y","Z">>
LowerSeq == <<"a","b","c","d","e","f","g","h","i","j","k","l","m",
              "n","o","p","q","r","s","t","u","v","w","x","y","z">>
DigitSeq == <<"0","1","2","3","4","5","6","7","8","9">>

IsSpace(c) == c = " "
IsUpper(c) == c \in Range(UpperSeq)
IsLower(c) == c \in Range(LowerSeq)
IsDigit(c) == c \in Range(DigitSeq)

LowerChar(c) ==
    IF IsUpper(c) THEN LowerSeq[CHOOSE i \in DOMAIN UpperSeq : UpperSeq[i] = c]
    ELSE c

DigitVal(c) == (CHOOSE i \in DOMAIN DigitSeq : DigitSeq[i] = c) - 1

LowerStr(s) == [i \in DOMAIN s |-> LowerChar(s[i])]

RECURSIVE LStrip(_)
LStrip(s) == IF s # <<>> /\ IsSpace(Head(s)) THEN LStrip(Tail(s)) ELSE s

RECURSIVE RStrip(_)
RStrip(s) ==
    IF s # <<>> /\ IsSpace(s[Len(s)]) THEN RStrip(SubSeq(s, 1, Len(s) - 1)) ELSE s

\* str.strip(): leading and trailing whitespace removed.
Strip(s) == RStrip(LStrip(s))

\* The ordering of characters by code point, for the characters of the model:
\* space < '.' < digits < upper case < '_' < lower case.
CharOrder == <<" ", ".">> \o DigitSeq \o UpperSeq \o <<"_">> \o LowerSeq

CharCode(c) == CHOOSE i \in DOMAIN CharOrder : CharOrder[i] = c

\* Python's ordering of str: lexicographic by code point.
RECURSIVE StrLess(_, _)
StrLess(a, b) ==
    IF b = <<>> THEN FALSE
    ELSE IF a = <<>> THEN TRUE
    ELSE IF Head(a) = Head(b) THEN StrLess(Tail(a), Tail(b))
    ELSE CharCode(Head(a)) < CharCode(Head(b))

-----------------------------------------------------------------------------
(* Column names: _normalize_column_name and the identifier pattern.        *)

\* re.sub(r"\s+", "_", name): every run of whitespace becomes one underscore.
RECURSIVE CollapseSpaces(_)
CollapseSpaces(s) ==
    IF s = <<>> THEN <<>>
    ELSE IF IsSpace(Head(s)) THEN <<"_">> \o CollapseSpaces(LStrip(s))
    ELSE <<Head(s)>> \o CollapseSpaces(Tail(s))

\* re.sub(r"[^0-9a-zA-Z_]+", "", name): only word characters are kept.
IsWordChar(c) == IsDigit(c) \/ IsUpper(c) \/ IsLower(c) \/ c = "_"

KeepWordChars(s) == SelectSeq(s, IsWordChar)

_normalize_column_name(name) == LowerStr(KeepWordChars(CollapseSpaces(Strip(name))))

HasSuffix(s, suf) ==
    Len(s) >= Len(suf) /\ SubSeq(s, Len(s) - Len(suf) + 1, Len(s)) = suf

HasPrefix(s, pre) == Len(s) >= Len(pre) /\ SubSeq(s, 1, Len(pre)) = pre

\* The pattern with only its first alternative, ^id$.
id_pattern_exact(name) == LowerStr(name) = <<"i", "d">>

\* re.search(r'(?i)(?:^id$|_id$|^id_)', str(c))
id_pattern(name) ==
    LET l == LowerStr(name)
    IN  \/ l = <<"i", "d">>
        \/ HasSuffix(l, <<"_", "i", "d">>)
        \/ HasPrefix(l, <<"i", "d", "_">>)

-----------------------------------------------------------------------------
(* Cells.                                                                  *)

NA == [k |-> "na", n |-> 0, s |-> <<>>]
Num(v) == [k |-> "num", n |-> v, s |-> <<>>]
Str(s) == [k |-> "str", n |-> 0, s |-> s]

\* pd.isna / Series.isna: None, NaN and pd.NA are all the missing marker.
isna(c) == c.k = "na"
notna(c) == ~isna(c)

\* The value of a string of digits.
RECURSIVE DigitsVal(_)
DigitsVal(s) ==
    IF s = <<>> THEN 0 ELSE 10 * DigitsVal(SubSeq(s, 1, Len(s) - 1)) + DigitVal(s[Len(s)])

AllDigits(s) == \A i \in DOMAIN s : IsDigit(s[i])
AllZeros(s) == \A i \in DOMAIN s : s[i] = "0"

DotPos(s) == IF \E i \in DOMAIN s : s[i] = "."
             THEN CHOOSE i \in DOMAIN s : s[i] = "." /\ \A j \in 1..(i - 1) : s[j] # "."
             ELSE 0

\* The number a text parses as under pd.to_numeric(errors='coerce'), or NA.
\* Surrounding whitespace is skipped; the literals of the model are digits
\* with an optional fraction of zeros ("1", "1.0"); anything else (the empty
\* text, letters) is coerced to NaN.
ParseNum(s) ==
    LET t == Strip(s)
        d == DotPos(t)
        ip == IF d = 0 THEN t ELSE SubSeq(t, 1, d - 1)
        fp == IF d = 0 THEN <<>> ELSE SubSeq(t, d + 1, Len(t))
    IN  IF ip # <<>> /\ AllDigits(ip) /\ AllZeros(fp)
        THEN Num(DigitsVal(ip) * Scale)
        ELSE NA

\* pd.to_numeric(series, errors='coerce') on one cell.
to_numeric(c) == IF c.k = "str" THEN ParseNum(c.s) ELSE c

\* The digits of a natural number.
RECURSIVE NatDigits(_)
NatDigits(n) ==
    IF n < 10 THEN <<DigitSeq[n + 1]>>
    ELSE NatDigits(n \div 10) \o <<DigitSeq[(n % 10) + 1]>>

\* str(x) of a float holding an integer value: "1.0".
FormatNum(v) == NatDigits(v \div Scale) \o <<".", "0">>

\* astype(str) / astype("string") on one non-missing cell.
ToText(c) == IF c.k = "num" THEN Str(FormatNum(c.n)) ELSE c

\* The ordering pandas sorts the values of one column by (numbers by value,
\* text by code point).
CellLess(a, b) ==
    IF a.k = "num" /\ b.k = "num" THEN a.n < b.n
    ELSE IF a.k = "str" /\ b.k = "str" THEN StrLess(a.s, b.s)
    ELSE a.k = "num" /\ b.k = "str"

-----------------------------------------------------------------------------
(* Tables.                                                                 *)

NRows(t) == Len(t.rows)
NCols(t) == Len(t.cols)
shape(t) == <<NRows(t), NCols(t)>>

\* df[c] for the j-th column: its cells, by row position.
Col(t, j) == [i \in 1..NRows(t) |-> t.rows[i].cells[j]]

\* df[c] = values (same index), with the dtype the values carry.
SetCol(t, j, cells, dtype) ==
    [cols |-> [t.cols EXCEPT ![j].dtype = dtype],
     rows |-> [i \in 1..NRows(t) |->
                 [t.rows[i] EXCEPT !.cells = [@ EXCEPT ![j] = cells[i]]]]]

\* df.loc[keep]: the rows at the positions i with keep[i], order kept.
KeepRows(t, keep) == [t EXCEPT !.rows = SelectIdx(t.rows, keep, 1)]

\* The columns at the positions j with keep[j], order kept.
KeepCols(t, keep) ==
    [cols |-> SelectIdx(t.cols, keep, 1),
     rows |-> [i \in 1..NRows(t) |->
                 [t.rows[i] EXCEPT !.cells = SelectIdx(@, keep, 1)]]]

is_numeric_dtype(dtype) == dtype \in {"float64", "int64"}

NaCount(cells) == Cardinality({i \in DOMAIN cells : isna(cells[i])})
NotNaCount(cells) == Cardinality({i \in DOMAIN cells : notna(cells[i])})

\* series.dropna() as a sequence of values, order kept.
DropNa(cells) == SelectSeq(cells, notna)

-----------------------------------------------------------------------------
(* Stage 1: column name normalization (lines 32-40).                       *)

NormalizeColumns(t, c) ==
    IF c.normalize_columns
    THEN [t EXCEPT !.cols =
            [j \in DOMAIN t.cols |->
                [t.cols[j] EXCEPT !.name = _normalize_column_name(@)]]]
    ELSE t

\* col_renames: the pairs old -> new of the names that changed.
ColRenames(t, c) ==
    IF c.normalize_columns
    THEN {<<t.cols[j].name, _normalize_column_name(t.cols[j].name)>> :
            j \in {i \in DOMAIN t.cols :
                     t.cols[i].name # _normalize_column_name(t.cols[i].name)}}
    ELSE {}

-----------------------------------------------------------------------------
(* Stage 2: whitespace trimming of object columns (lines 42-52).           *)

\* The trim without the .where(df[c].notna(), None): astype(str) writes the
\* missing marker as the text "None".
TrimCellStringified(c) ==
    IF c.k = "na" THEN Str(<<"N", "o", "n", "e">>) ELSE Str(Strip(ToText(c).s))

\* df[c].astype(str).where(df[c].notna(), None), then .str.strip(), on a cell.
TrimCell(c) == IF notna(c) THEN Str(Strip(ToText(c).s)) ELSE NA

TrimWhitespace(t, c) ==
    IF c.trim_whitespace
    THEN [t EXCEPT !.rows =
            [i \in DOMAIN t.rows |->
                [t.rows[i] EXCEPT !.cells =
                    [j \in DOMAIN t.cols |->
                        IF t.cols[j].dtype = "object"
                        THEN TrimCell(t.rows[i].cells[j])
                        ELSE t.rows[i].cells[j]]]]]
    ELSE t

-----------------------------------------------------------------------------
(* Stage 3: null handling (lines 54-98).                                   *)

HasNa(row) == \E j \in DOMAIN row.cells : isna(row.cells[j])

\* df.dropna(how='all') in the place of how='any'.
DropNaHowAll(t) ==
    KeepRows(t, [i \in DOMAIN t.rows |->
                    \E j \in DOMAIN t.rows[i].cells : ~isna(t.rows[i].cells[j])])

\* df.dropna(how='any')
DropNaAny(t) == KeepRows(t, [i \in DOMAIN t.rows |-> ~HasNa(t.rows[i])])

NumsOf(cells) == [i \in DOMAIN DropNa(cells) |-> DropNa(cells)[i].n]

\* col.mean(): the mean of the non-missing values, NaN when there is none.
Mean(cells) ==
    IF DropNa(cells) = <<>> THEN NA
    ELSE Num(SumSeq(NumsOf(cells)) \div Len(NumsOf(cells)))

\* col.median(): the middle value, or the mean of the two middle values.
Median(cells) ==
    LET s == SortInts(NumsOf(cells))
        n == Len(s)
    IN  IF n = 0 THEN NA
        ELSE IF n % 2 = 1 THEN Num(s[(n + 1) \div 2])
        ELSE Num((s[n \div 2] + s[n \div 2 + 1]) \div 2)

Occurrences(cells, v) == Cardinality({i \in DOMAIN cells : cells[i] = v})

\* col.mode(dropna=True): the most frequent values, sorted; the empty set
\* when every value is missing.
ModeVals(cells) ==
    LET vals == Range(DropNa(cells))
    IN  {v \in vals : \A w \in vals : Occurrences(cells, w) <= Occurrences(cells, v)}

\* mode_vals.iloc[0]: the least of the most frequent values.
ModeFirst(cells) ==
    CHOOSE v \in ModeVals(cells) : \A w \in ModeVals(cells) : w = v \/ CellLess(v, w)

\* col.fillna(val) on the cells.
FillNa(cells, val) == [i \in DOMAIN cells |-> IF isna(cells[i]) THEN val ELSE cells[i]]

\* The dtype of a column after fillna(val): a text put into a numeric column
\* makes it an object column.
FilledDtype(dtype, val) ==
    IF val.k = "str" /\ is_numeric_dtype(dtype) THEN "object" ELSE dtype

\* col.fillna('') if col.dtype == object else col.fillna(0); fillna(0) raises
\* on a column of the string dtype.
FallbackFill(dtype) ==
    IF dtype = "object" THEN [ok |-> TRUE, val |-> Str(<<>>)]
    ELSE IF dtype = "string" THEN [ok |-> FALSE, val |-> NA]
    ELSE [ok |-> TRUE, val |-> Num(0)]

\* The body of the try of lines 73-93 for one column: ok is FALSE when it
\* raises (fillna(None) raises ValueError), val is the value filled in.
FillAttempt(cells, dtype, c) ==
    IF c.fill_strategy = "mean" /\ is_numeric_dtype(dtype)
    THEN [ok |-> TRUE, val |-> Mean(cells)]
    ELSE IF c.fill_strategy = "median" /\ is_numeric_dtype(dtype)
    THEN [ok |-> TRUE, val |-> Median(cells)]
    ELSE IF c.fill_strategy = "mode"
    THEN IF ModeVals(cells) # {}
         THEN [ok |-> TRUE, val |-> ModeFirst(cells)]
         ELSE FallbackFill(dtype)
    ELSE IF c.fill_strategy = "constant"
    THEN [ok |-> notna(c.fill_constant), val |-> c.fill_constant]
    ELSE FallbackFill(dtype)

\* Whether the loop of lines 68-96 assigns column j and records it.
FillApplies(t, j, c) ==
    /\ NaCount(Col(t, j)) # 0
    /\ FillAttempt(Col(t, j), t.cols[j].dtype, c).ok

\* filled_counts[c] = na_count (line 93)
FilledCounts(t, c) ==
    {[col |-> t.cols[j].name, count |-> NaCount(Col(t, j))] :
        j \in {i \in DOMAIN t.cols : FillApplies(t, i, c)}}

FillNulls(t, c) ==
    [cols |-> [j \in DOMAIN t.cols |->
                 IF FillApplies(t, j, c)
                 THEN [t.cols[j] EXCEPT !.dtype =
                         FilledDtype(@, FillAttempt(Col(t, j), t.cols[j].dtype, c).val)]
                 ELSE t.cols[j]],
     rows |-> [i \in DOMAIN t.rows |->
                 [t.rows[i] EXCEPT !.cells =
                    [j \in DOMAIN t.cols |->
                        IF FillApplies(t, j, c) /\ isna(t.rows[i].cells[j])
                        THEN FillAttempt(Col(t, j), t.cols[j].dtype, c).val
                        ELSE t.rows[i].cells[j]]]]]

NullHandler(t, c) ==
    IF c.null_handling = "drop_rows" THEN DropNaAny(t)
    ELSE IF c.null_handling = "fill" THEN FillNulls(t, c)
    ELSE t

NullsDropped(t, c) ==
    IF c.null_handling = "drop_rows" THEN NRows(t) - NRows(DropNaAny(t)) ELSE 0

NullsFilled(t, c) == IF c.null_handling = "fill" THEN FilledCounts(t, c) ELSE {}

-----------------------------------------------------------------------------
(* Stage 4: blank rows and blank columns (lines 100-114).                  *)

AllNa(cells) == \A i \in DOMAIN cells : isna(cells[i])

\* df.dropna(how='any') in the place of how='all'.
DropBlankRowsHowAny(t) ==
    KeepRows(t, [i \in DOMAIN t.rows |->
                    \A j \in DOMAIN t.rows[i].cells : ~isna(t.rows[i].cells[j])])

\* df.dropna(how='all')
DropBlankRows(t) == KeepRows(t, [i \in DOMAIN t.rows |-> ~AllNa(t.rows[i].cells)])

\* df.dropna(axis=1, how='all')
DropBlankCols(t) == KeepCols(t, [j \in DOMAIN t.cols |-> ~AllNa(Col(t, j))])

AfterBlankRows(t, c) == IF c.drop_blank_rows THEN DropBlankRows(t) ELSE t

BlankPruner(t, c) ==
    IF c.drop_blank_cols THEN DropBlankCols(AfterBlankRows(t, c)) ELSE AfterBlankRows(t, c)

BlankRowsDropped(t, c) == NRows(t) - NRows(AfterBlankRows(t, c))

BlankColsDropped(t, c) == NCols(AfterBlankRows(t, c)) - NCols(BlankPruner(t, c))

-----------------------------------------------------------------------------
(* Stage 5: duplicate rows (lines 116-122).                                *)

\* df.drop_duplicates(): keep='first'; missing values compare equal; a frame
\* with no row or no column (df.empty) is returned as it is.
DropDuplicates(t) ==
    IF NRows(t) = 0 \/ NCols(t) = 0 THEN t
    ELSE KeepRows(t, [i \in DOMAIN t.rows |->
                        ~\E h \in 1..(i - 1) : t.rows[h].cells = t.rows[i].cells])

DuplicateRemover(t, c) == IF c.drop_duplicates THEN DropDuplicates(t) ELSE t

DuplicatesDropped(t, c) == NRows(t) - NRows(DuplicateRemover(t, c))

-----------------------------------------------------------------------------
(* Stages 6 and 7: type inference (lines 124-167) and the Arrow-compatible *)
(* finalizer (lines 169-216).                                              *)

ToNumericCol(cells) == [i \in DOMAIN cells |-> to_numeric(cells[i])]

\* The dtype pd.to_numeric gives: a numeric column keeps its dtype; parsed
\* text is int64 when every value is an integer literal, float64 otherwise.
NumericDtype(cells, dtype) ==
    IF is_numeric_dtype(dtype) THEN dtype
    ELSE IF \A i \in DOMAIN cells :
              cells[i].k = "str" /\ notna(ParseNum(cells[i].s)) /\ DotPos(cells[i].s) = 0
         THEN "int64"
         ELSE "float64"

\* non_null / max(1, len(series)) >= num/den for conv = to_numeric(series)
NumericRatioAtLeast(cells, num, den) ==
    den * NotNaCount(ToNumericCol(cells)) >= num * Max2(1, Len(cells))

\* non_na.str.contains(r'[/\\-.]|[A-Za-z]{3,}', regex=True) (lines 153, 194):
\* the character class holds the range \-. whose ends are out of order, so
\* compiling the pattern raises re.error each time it is evaluated.
DateLikePatternRaises == TRUE

\* The datetime attempt of lines 147-165 on a column: whether it commits the
\* column as datetime.  The column has a non-missing value here, the pattern
\* is evaluated, and the exception is swallowed by the except of line 164.
InferDatetimeCommits(cells) == ~DateLikePatternRaises

\* The ratio taken over the non-missing values in the place of len(series).
InferNumericCommitsOfNonMissing(t, j) ==
    /\ DropNa(Col(t, j)) # <<>>
    /\ 10 * NotNaCount(ToNumericCol(Col(t, j))) >= 9 * NotNaCount(Col(t, j))

\* Whether the inferencer commits column j as numeric (lines 132-143).
InferNumericCommits(t, j) ==
    /\ DropNa(Col(t, j)) # <<>>
    /\ NumericRatioAtLeast(Col(t, j), 9, 10)

InferColumn(t, j) ==
    IF InferNumericCommits(t, j)
    THEN SetCol(t, j, ToNumericCol(Col(t, j)), NumericDtype(Col(t, j), t.cols[j].dtype))
    ELSE t

RECURSIVE InferFrom(_, _)
InferFrom(t, j) == IF j > NCols(t) THEN t ELSE InferFrom(InferColumn(t, j), j + 1)

TypeInferencer(t, c) == IF c.infer_types THEN InferFrom(t, 1) ELSE t

DtypeChanges(t, c) ==
    IF c.infer_types
    THEN {[col |-> t.cols[j].name, from |-> t.cols[j].dtype, to |-> "numeric"] :
            j \in {i \in DOMAIN t.cols : InferNumericCommits(t, i)}}
    ELSE {}

\* The datetime attempt of lines 189-206: with no non-missing value the
\* date-like ratio is 0 and ValueError is raised; otherwise the pattern
\* raises.  Either way the except of line 205 is taken.
FinalizeDatetimeCommits(cells) == DropNa(cells) # <<>> /\ ~DateLikePatternRaises

\* ser.astype("string"): text kept, numbers written as text, missing kept.
AsStringCol(cells) == [i \in DOMAIN cells |-> IF notna(cells[i]) THEN ToText(cells[i]) ELSE NA]

FinalizeColumn(t, j) ==
    IF t.cols[j].dtype # "object" THEN t
    ELSE IF NumericRatioAtLeast(Col(t, j), 19, 20)
    THEN SetCol(t, j, ToNumericCol(Col(t, j)), NumericDtype(Col(t, j), "object"))
    ELSE SetCol(t, j, AsStringCol(Col(t, j)), "string")

RECURSIVE FinalizeFrom(_, _)
FinalizeFrom(t, j) == IF j > NCols(t) THEN t ELSE FinalizeFrom(FinalizeColumn(t, j), j + 1)

_make_arrow_compatible(t) == FinalizeFrom(t, 1)

-----------------------------------------------------------------------------
(* Stage 8: outlier detection and removal (lines 218-279).                 *)

\* float(config.get('outlier_threshold', 1.5 if method == 'iqr' else 3.0)),
\* as the fraction <<numerator, denominator>>.
Threshold(c) ==
    IF c.outlier_threshold.given THEN <<c.outlier_threshold.num, c.outlier_threshold.den>>
    ELSE IF c.outlier_method = "iqr" THEN <<3, 2>>
    ELSE <<3, 1>>

\* The columns of line 230: numeric dtype and a name the pattern spares.
IsOutlierColumn(t, j) ==
    is_numeric_dtype(t.cols[j].dtype) /\ ~id_pattern(t.cols[j].name)

\* Four times ser.quantile(q4 / 4), by linear interpolation on the sorted
\* non-missing values s (s is not empty).
Quantile4(s, q4) ==
    LET pos4 == (Len(s) - 1) * q4
        lo == pos4 \div 4 + 1
        fr == pos4 % 4
    IN  IF fr = 0 THEN 4 * s[lo] ELSE 4 * s[lo] + fr * (s[lo + 1] - s[lo])

\* (df[c] < lower) | (df[c] > upper), lines 244-249; th is the multiplier.
IqrMask(cells, th) ==
    LET s == SortInts(NumsOf(cells))
        q1 == Quantile4(s, 1)
        q3 == Quantile4(s, 3)
        iqr == q3 - q1
    IN  [i \in DOMAIN cells |->
            /\ notna(cells[i])
            /\ \/ 4 * th[2] * cells[i].n < th[2] * q1 - th[1] * iqr
               \/ 4 * th[2] * cells[i].n > th[2] * q3 + th[1] * iqr]

\* z.abs() > thresh with the population mean and deviation, lines 251-257:
\* |x - S/k| / sqrt(Q/k - (S/k)^2) > th, squared and cleared of fractions;
\* no value is flagged when the deviation is 0.
ZscoreMask(cells, th) ==
    LET v == NumsOf(cells)
        k == Len(v)
        S == SumSeq(v)
        Q == SumSeq([i \in DOMAIN v |-> v[i] * v[i]])
        var == k * Q - S * S
    IN  [i \in DOMAIN cells |->
            /\ var # 0
            /\ notna(cells[i])
            /\ th[2] * th[2] * (k * cells[i].n - S) * (k * cells[i].n - S)
                 > th[1] * th[1] * var]

\* The mask of one column (lines 238-257); all False when it has no value.
OutlierMask(cells, c) ==
    IF DropNa(cells) = <<>> THEN [i \in DOMAIN cells |-> FALSE]
    ELSE IF c.outlier_method = "iqr" THEN IqrMask(cells, Threshold(c))
    ELSE ZscoreMask(cells, Threshold(c))

MaskCount(mask) == Cardinality({i \in DOMAIN mask : mask[i]})

\* removal_mask = mask in the place of removal_mask | mask: the mask of the
\* last column with outliers replaces the masks before it.
RemovalMaskLastOnly(t, c) ==
    LET flagged == {j \in DOMAIN t.cols :
                      /\ is_numeric_dtype(t.cols[j].dtype) /\ ~id_pattern(t.cols[j].name)
                      /\ \E i \in DOMAIN t.rows : OutlierMask(Col(t, j), c)[i]}
        last == CHOOSE j \in flagged : \A h \in flagged : h <= j
    IN  [i \in DOMAIN t.rows |->
            /\ c.outlier_action = "drop"
            /\ flagged # {}
            /\ OutlierMask(Col(t, last), c)[i]]

\* removal_mask after the loop (lines 235-263).
RemovalMask(t, c) ==
    [i \in DOMAIN t.rows |->
        /\ c.outlier_action = "drop"
        /\ \E j \in DOMAIN t.cols :
              IsOutlierColumn(t, j) /\ OutlierMask(Col(t, j), c)[i]]

\* report['outliers'] after the loop and the purge of lines 270-279: one
\* entry per column, percent being count / total.
OutlierEntries(t, c) ==
    IF c.detect_outliers
    THEN {e \in {[col |-> t.cols[j].name,
                  count |-> MaskCount(OutlierMask(Col(t, j), c)),
                  total |-> Max2(1, NRows(t))] :
                    j \in {i \in DOMAIN t.cols : IsOutlierColumn(t, i)}} :
            ~id_pattern(e.col)}
    ELSE {}

OutlierDetector(t, c) ==
    IF c.detect_outliers /\ c.outlier_action = "drop"
    THEN KeepRows(t, [i \in DOMAIN t.rows |-> ~RemovalMask(t, c)[i]])
    ELSE t

\* The counts of the columns added up, in the place of before - len(df): a
\* row flagged by two columns is counted twice.
OutliersRemovedSummed(t, c) ==
    IF c.detect_outliers /\ c.outlier_action = "drop"
    THEN SumSeq([j \in DOMAIN t.cols |->
                    IF IsOutlierColumn(t, j) THEN MaskCount(OutlierMask(Col(t, j), c)) ELSE 0])
    ELSE 0

OutliersRemoved(t, c) == NRows(t) - NRows(OutlierDetector(t, c))

\* The difference taken the other way round.
RemovedReversed(original, cleaned) == cleaned - original

\* report['rows_removed'] and report['cols_removed'] (lines 283-284)
Removed(original, cleaned) == original - cleaned

-----------------------------------------------------------------------------
(* The inputs of the model: tables and configurations.                     *)

NameValid == <<"v", "a", "l", "i", "d">>
NameUserId == <<"U", "s", "e", "r", " ", "I", "D">>
NameId == <<"i", "d">>

\* The column names a table draws from, in the order they appear in it.  No
\* two of them normalize to the same name: what happens to columns whose
\* normalized names collide is outside the model.
ColumnNames == <<NameValid, NameUserId, NameId>>

\* The values of a float64 column and the texts of an object column.
NumVals == {1, 9}
Texts == {<<"1">>, <<"1", ".", "0">>, <<" ", "a", " ">>}

FloatCells == {NA} \cup {Num(v * Scale) : v \in NumVals}
ObjectCells == {NA} \cup {Str(s) : s \in Texts}

CellsOf(dtype) == IF dtype = "float64" THEN FloatCells ELSE ObjectCells

\* The first k names, and every increasing choice of k names.
FirstNames(k) == {[j \in 1..k |-> j]}

AnyNames(k) ==
    {p \in [1..k -> DOMAIN ColumnNames] : \A a, b \in 1..k : a < b => p[a] < p[b]}

\* The columns of r cells: a dtype among dtypes and cells of that dtype.
Columns(r, dtypes) ==
    UNION {{[dtype |-> d, cells |-> cs] : cs \in [1..r -> CellsOf(d)]} : d \in dtypes}

\* The tables of r rows and k columns with the names chosen by p: any
\* columns, the index 0..r-1 of a freshly read frame.
Tables(r, k, p, dtypes) ==
    {[cols |-> [j \in 1..k |-> [name |-> ColumnNames[p[j]], dtype |-> m[j].dtype]],
      rows |-> [i \in 1..r |-> [idx |-> i - 1, cells |-> [j \in 1..k |-> m[j].cells[i]]]]] :
        m \in [1..k -> Columns(r, dtypes)]}

\* Tables of float64 and object columns, named by the first names.
MixedTablesOf(maxrows, maxcols) ==
    UNION {Tables(r, k, [j \in 1..k |-> j], {"float64", "object"}) :
             r \in 0..maxrows, k \in 0..maxcols}

MixedTables(maxcols) == MixedTablesOf(MaxRows, maxcols)

\* Tables of float64 columns under every choice of names.
NumericTables ==
    UNION {UNION {Tables(r, k, p, {"float64"}) : p \in AnyNames(k)} :
             r \in 0..MaxRows, k \in 0..MaxCols}

\* Long tables of one object column: a text that parses as a number, a text
\* that does not, and missing cells, laid out as three runs of equal cells.
InferCells == {NA, Str(<<"1">>), Str(<<"a">>)}

Run(c, n) == [i \in 1..n |-> c]

InferTable(cs) ==
    [cols |-> <<[name |-> NameValid, dtype |-> "object"]>>,
     rows |-> [i \in DOMAIN cs |-> [idx |-> i - 1, cells |-> <<cs[i]>>]]]

\* null_handling, fill_strategy and fill_constant as the caller sets them:
\* the strategy matters only with 'fill', the constant only with 'constant'
\* (None, or the text "1").
NullOptions ==
    {[null_handling |-> "none", fill_strategy |-> "mode", fill_constant |-> NA],
     [null_handling |-> "drop_rows", fill_strategy |-> "mode", fill_constant |-> NA]}
    \cup {[null_handling |-> "fill", fill_strategy |-> s, fill_constant |-> NA] :
            s \in {"mean", "median", "mode", "constant"}}
    \cup {[null_handling |-> "fill", fill_strategy |-> "constant",
           fill_constant |-> Str(<<"1">>)]}

\* The thresholds given by the caller (1/2 and 1), or the key left out.
ThresholdOptions ==
    {[given |-> FALSE, num |-> 0, den |-> 1],
     [given |-> TRUE, num |-> 1, den |-> 2],
     [given |-> TRUE, num |-> 1, den |-> 1]}

OutlierOptions ==
    {[detect_outliers |-> FALSE, outlier_method |-> "iqr",
      outlier_threshold |-> [given |-> FALSE, num |-> 0, den |-> 1],
      outlier_action |-> "report"]}
    \cup {[detect_outliers |-> TRUE, outlier_method |-> m,
           outlier_threshold |-> th, outlier_action |-> a] :
            m \in {"iqr", "zscore"}, th \in ThresholdOptions, a \in {"report", "drop"}}

Configs ==
    {[normalize_columns |-> b[1], trim_whitespace |-> b[2],
      null_handling |-> n.null_handling, fill_strategy |-> n.fill_strategy,
      fill_constant |-> n.fill_constant,
      drop_blank_rows |-> b[3], drop_blank_cols |-> b[4], drop_duplicates |-> b[5],
      infer_types |-> b[6],
      detect_outliers |-> o.detect_outliers, outlier_method |-> o.outlier_method,
      outlier_threshold |-> o.outlier_threshold, outlier_action |-> o.outlier_action] :
        b \in [1..6 -> BOOLEAN], n \in NullOptions, o \in OutlierOptions}

-----------------------------------------------------------------------------
(* The state machine: one call of clean_dataframe runs its stages in order;*)
(* the caller may then clean the returned table again with the same        *)
(* configuration.                                                          *)

EmptyReport ==
    [original_shape |-> <<0, 0>>, col_renames |-> {}, nulls_dropped |-> 0,
     nulls_filled |-> {}, blank_rows_dropped |-> 0, blank_cols_dropped |-> 0,
     duplicates_dropped |-> 0, dtype_changes |-> {}, outliers |-> {},
     outliers_removed |-> 0, cleaned_shape |-> <<0, 0>>, rows_removed |-> 0,
     cols_removed |-> 0]

InitWith(tables, configs) ==
    /\ pc = "normalize"
    /\ df \in tables
    /\ prev = df
    /\ cfg \in configs
    /\ report = EmptyReport
    /\ calls = 1

\* Every configuration, on tables of fewer rows and columns.
Init == InitWith(MixedTablesOf(MaxRows - 1, MaxCols - 1), Configs)

\* Lines 28-40.
StageNormalize ==
    /\ pc = "normalize"
    /\ df' = NormalizeColumns(df, cfg)
    /\ report' = [report EXCEPT !.original_shape = shape(df),
                                !.col_renames = ColRenames(df, cfg)]
    /\ prev' = df
    /\ pc' = "trim"
    /\ UNCHANGED <<cfg, calls>>

\* Lines 42-52.
StageTrim ==
    /\ pc = "trim"
    /\ df' = TrimWhitespace(df, cfg)
    /\ prev' = df
    /\ pc' = "null"
    /\ UNCHANGED <<cfg, report, calls>>

\* Lines 54-98.
StageNull ==
    /\ pc = "null"
    /\ df' = NullHandler(df, cfg)
    /\ report' = [report EXCEPT !.nulls_dropped = NullsDropped(df, cfg),
                                !.nulls_filled = NullsFilled(df, cfg)]
    /\ prev' = df
    /\ pc' = "blank"
    /\ UNCHANGED <<cfg, calls>>

\* Lines 100-114.
StageBlank ==
    /\ pc = "blank"
    /\ df' = BlankPruner(df, cfg)
    /\ report' = [report EXCEPT !.blank_rows_dropped = BlankRowsDropped(df, cfg),
                                !.blank_cols_dropped = BlankColsDropped(df, cfg)]
    /\ prev' = df
    /\ pc' = "dedup"
    /\ UNCHANGED <<cfg, calls>>

\* Lines 116-122.
StageDedup ==
    /\ pc = "dedup"
    /\ df' = DuplicateRemover(df, cfg)
    /\ report' = [report EXCEPT !.duplicates_dropped = DuplicatesDropped(df, cfg)]
    /\ prev' = df
    /\ pc' = "infer"
    /\ UNCHANGED <<cfg, calls>>

\* Lines 124-167.
StageInfer ==
    /\ pc = "infer"
    /\ df' = TypeInferencer(df, cfg)
    /\ report' = [report EXCEPT !.dtype_changes = DtypeChanges(df, cfg)]
    /\ prev' = df
    /\ pc' = "finalize"
    /\ UNCHANGED <<cfg, calls>>

\* Lines 169-216.
StageFinalize ==
    /\ pc = "finalize"
    /\ df' = _make_arrow_compatible(df)
    /\ prev' = df
    /\ pc' = "outlier"
    /\ UNCHANGED <<cfg, report, calls>>

\* Lines 218-286: the outlier stage, then the shapes of the report and the
\* return.
StageOutlier ==
    /\ pc = "outlier"
    /\ df' = OutlierDetector(df, cfg)
    /\ report' = [report EXCEPT
          !.outliers = OutlierEntries(df, cfg),
          !.outliers_removed = OutliersRemoved(df, cfg),
          !.cleaned_shape = shape(OutlierDetector(df, cfg)),
          !.rows_removed = Removed(report.original_shape[1], NRows(OutlierDetector(df, cfg))),
          !.cols_removed = Removed(report.original_shape[2], NCols(OutlierDetector(df, cfg)))]
    /\ prev' = df
    /\ pc' = "done"
    /\ UNCHANGED <<cfg, calls>>

\* The caller cleans the returned table again with the same configuration:
\* a new call, with a report built afresh.
CleanAgain ==
    /\ pc = "done"
    /\ calls < MaxCalls
    /\ calls' = calls + 1
    /\ report' = EmptyReport
    /\ prev' = df
    /\ pc' = "normalize"
    /\ UNCHANGED <<df, cfg>>

\* The stages of one call.
Stages ==
    \/ StageNormalize
    \/ StageTrim
    \/ StageNull
    \/ StageBlank
    \/ StageDedup
    \/ StageInfer
    \/ StageFinalize
    \/ StageOutlier

Next == Stages \/ CleanAgain

Spec == Init /\ [][Stages]_vars

\* The configurations that leave a group of options at its default.
NoPruning(c) == ~c.drop_blank_rows /\ ~c.drop_blank_cols /\ ~c.drop_duplicates
NoNulls(c) == c.null_handling = "none"
NoOutliers(c) == ~c.detect_outliers

\* Null handling on wide tables: trimming and null handling vary.
InitNull ==
    InitWith(MixedTables(MaxCols),
             {c \in Configs : /\ ~c.normalize_columns /\ NoPruning(c)
                               /\ ~c.infer_types /\ NoOutliers(c)})

SpecNull == InitNull /\ [][Stages]_vars

\* Pruning and duplicates on wide tables: trimming, pruning, duplicates vary.
InitPrune ==
    InitWith(MixedTables(MaxCols),
             {c \in Configs : /\ ~c.normalize_columns /\ NoNulls(c)
                               /\ ~c.infer_types /\ NoOutliers(c)})

SpecPrune == InitPrune /\ [][Stages]_vars

\* Outliers on wide numeric tables: names, inference and outliers vary.
InitOutlier ==
    InitWith(NumericTables,
             {c \in Configs : ~c.trim_whitespace /\ NoNulls(c) /\ NoPruning(c)})

SpecOutlier == InitOutlier /\ [][Stages]_vars

\* Cleaning the cleaned table again, with pruning and duplicates enabled.
InitAgain ==
    InitWith(MixedTables(MaxCols - 1),
             {c \in Configs : c.drop_blank_rows /\ c.drop_blank_cols /\ c.drop_duplicates})

SpecAgain == InitAgain /\ [][Next]_vars

\* Inference on long tables of one column: infer_types varies.
InitInfer ==
    /\ pc = "normalize"
    /\ \E a, b, c \in InferCells : \E n1, n2, n3 \in 0..MaxInferRows :
          /\ n1 + n2 + n3 <= MaxInferRows
          /\ df = InferTable(Run(a, n1) \o Run(b, n2) \o Run(c, n3))
    /\ prev = df
    /\ cfg \in {c \in Configs : /\ ~c.normalize_columns /\ ~c.trim_whitespace /\ NoNulls(c)
                                 /\ NoPruning(c) /\ NoOutliers(c)}
    /\ report = EmptyReport
    /\ calls = 1

SpecInfer == InitInfer /\ [][Stages]_vars

\* The accounting of removed rows and columns: tables of one column, and of
\* two float64 columns; every stage that removes rows or columns varies.
AccountTables ==
    MixedTables(MaxCols - 1)
    \cup UNION {Tables(r, MaxCols, [j \in 1..MaxCols |-> j], {"float64"}) : r \in 0..MaxRows}

InitAccount ==
    InitWith(AccountTables,
             {c \in Configs :
                /\ ~c.normalize_columns /\ ~c.trim_whitespace /\ ~c.infer_types
                /\ c.fill_strategy = "mode"
                /\ c.detect_outliers => (c.outlier_threshold.given /\ c.outlier_action = "drop")})

SpecAccount == InitAccount /\ [][Stages]_vars

-----------------------------------------------------------------------------
(* Vocabulary of the properties, stated on tables without the operators of *)
(* the stages.                                                             *)

Missing(c) == c = NA

IdxOf(t) == {t.rows[i].idx : i \in DOMAIN t.rows}

NamesOf(t) == {t.cols[j].name : j \in DOMAIN t.cols}

\* The rows are in the order of their index labels.
InIndexOrder(t) == \A a, b \in DOMAIN t.rows : a < b => t.rows[a].idx < t.rows[b].idx

RowHasMissing(t, i) == \E j \in DOMAIN t.cols : Missing(t.rows[i].cells[j])
RowAllMissing(t, i) == \A j \in DOMAIN t.cols : Missing(t.rows[i].cells[j])
ColHasMissing(t, j) == \E i \in DOMAIN t.rows : Missing(t.rows[i].cells[j])
ColAllMissing(t, j) == \A i \in DOMAIN t.rows : Missing(t.rows[i].cells[j])
ColMissingCount(t, j) == Cardinality({i \in DOMAIN t.rows : Missing(t.rows[i].cells[j])})

\* The rows of t are rows of s, in the order they have in s.
RowsTakenFrom(t, s) ==
    /\ \A i \in DOMAIN t.rows : \E h \in DOMAIN s.rows : t.rows[i] = s.rows[h]
    /\ InIndexOrder(t)

\* ---- C1 ----------------------------------------------------------------
\* C1: the row count and the column count of the working table never
\* increase from one stage to the next, nor above the original shape, and
\* the returned report has rows_removed >= 0 and cols_removed >= 0 with
\* cleaned_shape no larger than original_shape.
C1_CountsNeverIncrease ==
    /\ NRows(df) <= NRows(prev)
    /\ NCols(df) <= NCols(prev)
    /\ pc # "normalize" =>
          /\ NRows(df) <= report.original_shape[1]
          /\ NCols(df) <= report.original_shape[2]
    /\ pc = "done" =>
          /\ report.cleaned_shape = shape(df)
          /\ report.cleaned_shape[1] <= report.original_shape[1]
          /\ report.cleaned_shape[2] <= report.original_shape[2]
          /\ report.rows_removed >= 0
          /\ report.cols_removed >= 0

\* A call that returned after removing a row and a column.
C1_Witness ==
    /\ pc = "done"
    /\ report.rows_removed > 0
    /\ report.cols_removed > 0

\* ---- C2 ----------------------------------------------------------------
\* C2: with drop_blank_rows, drop_blank_cols and drop_duplicates enabled,
\* cleaning the cleaned table again with the same configuration removes no
\* row and no column: the second report has blank_rows_dropped,
\* blank_cols_dropped, duplicates_dropped, rows_removed and cols_removed 0.
C2_SecondCleanRemovesNothing ==
    (/\ pc = "done"
     /\ calls = 2
     /\ cfg.drop_blank_rows /\ cfg.drop_blank_cols /\ cfg.drop_duplicates)
    => /\ report.blank_rows_dropped = 0
       /\ report.blank_cols_dropped = 0
       /\ report.duplicates_dropped = 0
       /\ report.rows_removed = 0
       /\ report.cols_removed = 0

\* ---- C3 ----------------------------------------------------------------
\* C3: with null_handling = 'drop_rows' the null stage removes exactly the
\* rows with a missing cell, keeps the others in their order, leaves no
\* missing cell, and nulls_dropped is the number of rows removed.
C3_DropRowsRemovesIncompleteRows ==
    (pc = "blank" /\ cfg.null_handling = "drop_rows")
    => /\ df.cols = prev.cols
       /\ RowsTakenFrom(df, prev)
       /\ \A i \in DOMAIN prev.rows :
             (\E h \in DOMAIN df.rows : df.rows[h] = prev.rows[i]) <=> ~RowHasMissing(prev, i)
       /\ \A i \in DOMAIN df.rows : ~RowHasMissing(df, i)
       /\ report.nulls_dropped = NRows(prev) - NRows(df)
       /\ report.nulls_dropped = Cardinality({i \in DOMAIN prev.rows : RowHasMissing(prev, i)})

\* Two complete rows kept around a removed one.
C3_Witness ==
    /\ pc = "blank"
    /\ cfg.null_handling = "drop_rows"
    /\ NRows(prev) = 3
    /\ RowHasMissing(prev, 2) /\ ~RowAllMissing(prev, 2)
    /\ NRows(df) = 2
    /\ report.nulls_dropped = 1

\* ---- C4 ----------------------------------------------------------------
\* The value v is the mean of the non-missing cells of column j of t.
IsMeanOf(v, t, j) ==
    LET present == {i \in DOMAIN t.rows : ~Missing(t.rows[i].cells[j])}
    IN  /\ v.k = "num"
        /\ v.n * Cardinality(present) = SumSeq([i \in DOMAIN t.rows |-> t.rows[i].cells[j].n])

\* The value v is the median of the non-missing cells of column j of t: as
\* many of them lie at or below it as at or above it, and it is one of them
\* or the mean of the two around it.
IsMedianOf(v, t, j) ==
    LET vals == {i \in DOMAIN t.rows : ~Missing(t.rows[i].cells[j])}
        below == {i \in vals : t.rows[i].cells[j].n < v.n}
        above == {i \in vals : t.rows[i].cells[j].n > v.n}
    IN  /\ v.k = "num"
        /\ 2 * Cardinality(below) <= Cardinality(vals)
        /\ 2 * Cardinality(above) <= Cardinality(vals)
        /\ \/ \E i \in vals : t.rows[i].cells[j].n = v.n
           \/ \E a, b \in vals :
                 /\ 2 * v.n = t.rows[a].cells[j].n + t.rows[b].cells[j].n
                 /\ Cardinality(below) = Cardinality(above)

IsNumericColumn(t, j) == t.cols[j].dtype \in {"float64", "int64"}

\* C4: with null_handling = 'fill' and fill_strategy 'mean' or 'median', a
\* numeric column has its missing cells replaced by the mean/median of its
\* non-missing values, and a non-numeric column is skipped: its cells are
\* unchanged and it has no entry in nulls_filled.
C4_MeanMedianSkipNonNumeric ==
    (pc = "blank" /\ cfg.null_handling = "fill" /\ cfg.fill_strategy \in {"mean", "median"})
    => /\ NRows(df) = NRows(prev) /\ NCols(df) = NCols(prev)
       /\ \A j \in DOMAIN prev.cols :
             IF IsNumericColumn(prev, j)
             THEN \A i \in DOMAIN prev.rows :
                    IF Missing(prev.rows[i].cells[j])
                    THEN ~ColAllMissing(prev, j) =>
                           IF cfg.fill_strategy = "mean"
                           THEN IsMeanOf(df.rows[i].cells[j], prev, j)
                           ELSE IsMedianOf(df.rows[i].cells[j], prev, j)
                    ELSE df.rows[i].cells[j] = prev.rows[i].cells[j]
             ELSE /\ \A i \in DOMAIN prev.rows : df.rows[i].cells[j] = prev.rows[i].cells[j]
                  /\ \A e \in report.nulls_filled : e.col # prev.cols[j].name

\* ---- C5 ----------------------------------------------------------------
\* C5: with null_handling = 'fill', nulls_filled has an entry for a column
\* only if the column had a missing cell before the fill and has none after
\* it, and the entry's count is the number of cells filled; a column without
\* missing cells, or whose missing cells were left in place, has no entry.
C5_FilledOnlyWhenFilled ==
    (pc = "blank" /\ cfg.null_handling = "fill")
    => \A j \in DOMAIN prev.cols :
          \A e \in report.nulls_filled :
             e.col = prev.cols[j].name
             => /\ ColHasMissing(prev, j)
                /\ ~ColHasMissing(df, j)
                /\ e.count = ColMissingCount(prev, j)

\* ---- C6 ----------------------------------------------------------------
IsI(ch) == ch \in {"i", "I"}
IsD(ch) == ch \in {"d", "D"}

\* The name matches ^id$, _id$ or ^id_ without regard to case.
IsIdentifierName(name) ==
    LET n == Len(name)
    IN  \/ n = 2 /\ IsI(name[1]) /\ IsD(name[2])
        \/ n >= 3 /\ name[n - 2] = "_" /\ IsI(name[n - 1]) /\ IsD(name[n])
        \/ n >= 3 /\ IsI(name[1]) /\ IsD(name[2]) /\ name[3] = "_"

\* t with every cell of its identifier columns replaced by v.
WithIdentifierCells(t, v) ==
    [t EXCEPT !.rows =
        [i \in DOMAIN t.rows |->
            [t.rows[i] EXCEPT !.cells =
                [j \in DOMAIN t.cols |->
                    IF IsIdentifierName(t.cols[j].name) THEN v ELSE t.rows[i].cells[j]]]]]

\* C6: with detect_outliers enabled an identifier column has no key in
\* report outliers, and the rows the outlier stage removes are those it
\* removes when the identifier columns hold any other values.  Every table
\* is a table the stage is entered with, so it is enough that the removed
\* rows are those removed when each identifier column holds one same value.
C6_IdentifierColumnsIgnored ==
    (pc = "done" /\ cfg.detect_outliers)
    => /\ \A e \in report.outliers : ~IsIdentifierName(e.col)
       /\ \A v \in FloatCells :
             IdxOf(prev) \ IdxOf(df) =
                IdxOf(prev) \ IdxOf(OutlierDetector(WithIdentifierCells(prev, v), cfg))

\* A numeric identifier column whose own mask flags a row that is kept,
\* while another column has a row removed.
C6_Witness ==
    /\ pc = "done"
    /\ cfg.detect_outliers
    /\ cfg.outlier_action = "drop"
    /\ report.outliers_removed > 0
    /\ \E j \in DOMAIN prev.cols : \E i \in DOMAIN prev.rows :
          /\ IsIdentifierName(prev.cols[j].name)
          /\ IsNumericColumn(prev, j)
          /\ OutlierMask(Col(prev, j), cfg)[i]
          /\ prev.rows[i].idx \in IdxOf(df)

\* ---- C7 ----------------------------------------------------------------
EligibleColumns(t) ==
    {j \in DOMAIN t.cols : IsNumericColumn(t, j) /\ ~IsIdentifierName(t.cols[j].name)}

\* Row i of t is flagged by the mask of an eligible column, the mask being
\* computed on the whole of t.
FlaggedRow(t, i, c) == \E j \in EligibleColumns(t) : OutlierMask(Col(t, j), c)[i]

\* C7: with detect_outliers enabled and outlier_action 'drop' the rows
\* removed are exactly the rows flagged by at least one eligible column on
\* the table as it entered the stage; with 'report' the table is unchanged;
\* outliers_removed is the number of rows removed; every eligible column,
\* and no other, has a {count, percent} entry, also when its count is 0.
C7_DropRemovesUnionOfMasks ==
    (pc = "done" /\ cfg.detect_outliers)
    => /\ cfg.outlier_action = "drop" =>
             /\ IdxOf(df) = {prev.rows[i].idx :
                               i \in {h \in DOMAIN prev.rows : ~FlaggedRow(prev, h, cfg)}}
             /\ RowsTakenFrom(df, prev)
             /\ df.cols = prev.cols
       /\ cfg.outlier_action = "report" => df = prev
       /\ report.outliers_removed = NRows(prev) - NRows(df)
       /\ {e.col : e \in report.outliers} = {prev.cols[j].name : j \in EligibleColumns(prev)}
       /\ Cardinality(report.outliers) = Cardinality(EligibleColumns(prev))
       /\ \A e \in report.outliers : \A j \in EligibleColumns(prev) :
             prev.cols[j].name = e.col
             => /\ e.count = Cardinality({i \in DOMAIN prev.rows :
                                            OutlierMask(Col(prev, j), cfg)[i]})
                /\ e.total = Max2(1, NRows(prev))

\* Two eligible columns, each flagging one row the other does not, and a
\* third row kept.
C7_Witness ==
    /\ pc = "done"
    /\ cfg.detect_outliers
    /\ cfg.outlier_action = "drop"
    /\ report.outliers_removed = 2
    /\ NRows(df) = 1
    /\ Cardinality(report.outliers) = 2
    /\ \A e \in report.outliers : e.count = 1

\* ---- C8 ----------------------------------------------------------------
\* The cell of t in the row labelled x and the column named nm.
CellAt(t, x, nm) ==
    LET i == CHOOSE h \in DOMAIN t.rows : t.rows[h].idx = x
        j == CHOOSE h \in DOMAIN t.cols : t.cols[h].name = nm
    IN  t.rows[i].cells[j]

\* t is s restricted to the rows rs and the columns cs of s, order kept.
IsRestriction(t, s, rs, cs) ==
    /\ IdxOf(t) = {s.rows[i].idx : i \in rs}
    /\ NRows(t) = Cardinality(rs)
    /\ InIndexOrder(t)
    /\ NCols(t) = Cardinality(cs)
    /\ \A j \in DOMAIN t.cols : \E h \in cs : t.cols[j] = s.cols[h]
    /\ \A a, b \in DOMAIN t.cols : \A g, h \in cs :
          (a < b /\ t.cols[a] = s.cols[g] /\ t.cols[b] = s.cols[h]) => g < h
    /\ \A i \in rs : \A j \in cs :
          CellAt(t, s.rows[i].idx, s.cols[j].name) = s.rows[i].cells[j]

\* C8: with drop_blank_rows on exactly the all-missing rows are removed and
\* blank_rows_dropped counts them; with drop_blank_cols on exactly the
\* columns all-missing after the row pass are removed and blank_cols_dropped
\* counts them; with both on no all-missing row or column is left; an option
\* that is off leaves its count 0 and its pass changes nothing.
C8_BlankPruner ==
    pc = "dedup"
    => LET rs == IF cfg.drop_blank_rows
                 THEN {i \in DOMAIN prev.rows : ~RowAllMissing(prev, i)}
                 ELSE DOMAIN prev.rows
           cs == IF cfg.drop_blank_cols
                 THEN {j \in DOMAIN prev.cols :
                         \E i \in rs : ~Missing(prev.rows[i].cells[j])}
                 ELSE DOMAIN prev.cols
       IN  /\ IsRestriction(df, prev, rs, cs)
           /\ report.blank_rows_dropped = NRows(prev) - Cardinality(rs)
           /\ report.blank_cols_dropped = NCols(prev) - Cardinality(cs)
           /\ ~cfg.drop_blank_rows => report.blank_rows_dropped = 0
           /\ ~cfg.drop_blank_cols => report.blank_cols_dropped = 0
           /\ (cfg.drop_blank_rows /\ cfg.drop_blank_cols) =>
                 /\ \A i \in DOMAIN df.rows : ~RowAllMissing(df, i)
                 /\ \A j \in DOMAIN df.cols : ~ColAllMissing(df, j)

\* One blank row and one blank column removed, a row with a missing cell
\* kept.
C8_Witness ==
    /\ pc = "dedup"
    /\ cfg.drop_blank_rows /\ cfg.drop_blank_cols
    /\ report.blank_rows_dropped = 1
    /\ report.blank_cols_dropped = 1
    /\ NRows(df) = 2
    /\ NCols(df) = 1

\* ---- C9 ----------------------------------------------------------------
\* Row i of t equals an earlier row of t in every column.
RepeatsEarlierRow(t, i) == \E h \in 1..(i - 1) : t.rows[h].cells = t.rows[i].cells

DedupKeepsFirsts ==
    /\ IsRestriction(df, prev, {i \in DOMAIN prev.rows : ~RepeatsEarlierRow(prev, i)},
                     DOMAIN prev.cols)
    /\ \A a, b \in DOMAIN df.rows : a # b => df.rows[a].cells # df.rows[b].cells
    /\ report.duplicates_dropped = NRows(prev) - NRows(df)

\* C9 as stated: with drop_duplicates on a row is removed exactly when an
\* earlier row equals it in every column, the kept rows keep their order, no
\* two rows of the result are equal, and duplicates_dropped is the number of
\* rows removed (0 when the option is off).
C9_DedupRemovesEveryRepeat ==
    pc = "infer"
    => IF cfg.drop_duplicates THEN DedupKeepsFirsts
       ELSE report.duplicates_dropped = 0

\* Where the code agrees with C9: on every table with a column.  A table
\* with rows and no column is df.empty and comes back unchanged.
DedupKeepsFirstsGivenAColumn ==
    pc = "infer"
    => IF cfg.drop_duplicates /\ NCols(prev) > 0 THEN DedupKeepsFirsts
       ELSE df = prev /\ report.duplicates_dropped = 0

\* ---- C10 ---------------------------------------------------------------
AllSpaces(s) == \A i \in DOMAIN s : s[i] = " "

\* s is p without its leading and trailing whitespace.
IsStripOf(s, p) ==
    /\ s # <<>> => s[1] # " " /\ s[Len(s)] # " "
    /\ \E a \in 0..Len(p) :
          /\ a + Len(s) <= Len(p)
          /\ SubSeq(p, a + 1, a + Len(s)) = s
          /\ AllSpaces(SubSeq(p, 1, a))
          /\ AllSpaces(SubSeq(p, a + Len(s) + 1, Len(p)))

SameShape(t, s) == NRows(t) = NRows(s) /\ NCols(t) = NCols(s)

\* C10: the missing marker is never turned into text: after the trimmer and
\* after the finalizer every cell that was missing is still missing; after
\* the trimmer every text cell is its previous text stripped, and the text
\* fallback of the finalizer keeps every text as it is.
C10_MissingNeverBecomesText ==
    /\ (pc = "null" /\ cfg.trim_whitespace)
       => /\ SameShape(df, prev)
          /\ \A i \in DOMAIN prev.rows : \A j \in DOMAIN prev.cols :
                /\ Missing(prev.rows[i].cells[j]) => Missing(df.rows[i].cells[j])
                /\ prev.rows[i].cells[j].k = "str"
                   => /\ df.rows[i].cells[j].k = "str"
                      /\ IsStripOf(df.rows[i].cells[j].s, prev.rows[i].cells[j].s)
    /\ pc = "outlier"
       => /\ SameShape(df, prev)
          /\ \A i \in DOMAIN prev.rows : \A j \in DOMAIN prev.cols :
                /\ Missing(prev.rows[i].cells[j]) => Missing(df.rows[i].cells[j])
                /\ (df.cols[j].dtype = "string" /\ prev.rows[i].cells[j].k = "str")
                   => df.rows[i].cells[j] = prev.rows[i].cells[j]

\* A column that went through the trimmer and the text fallback: it holds
\* a missing cell and a text whose surrounding whitespace was removed.
C10_Witness ==
    /\ pc = "outlier"
    /\ cfg.trim_whitespace
    /\ \E j \in DOMAIN df.cols :
          /\ df.cols[j].dtype = "string"
          /\ prev.cols[j].dtype = "object"
          /\ \E i \in DOMAIN df.rows : Missing(df.rows[i].cells[j])
          /\ \E i \in DOMAIN df.rows : df.rows[i].cells[j] = Str(<<"a">>)

\* ---- C11 ---------------------------------------------------------------
\* The texts of the tables that are number literals.
NumberTexts == {<<"1">>, <<"1", ".", "0">>}

ParsesAsNumber(c) == c.k = "num" \/ (c.k = "str" /\ c.s \in NumberTexts)

ParsedCount(t, j) ==
    Cardinality({i \in DOMAIN t.rows : ParsesAsNumber(t.rows[i].cells[j])})

\* Column j went from s to t as a numeric column: texts that are numbers
\* became numbers, the other cells became missing.
CommittedNumeric(t, s, j) ==
    /\ t.cols[j].name = s.cols[j].name
    /\ t.cols[j].dtype \in {"int64", "float64"}
    /\ \A i \in DOMAIN s.rows :
          IF ParsesAsNumber(s.rows[i].cells[j])
          THEN t.rows[i].cells[j].k = "num"
          ELSE Missing(t.rows[i].cells[j])

\* C11: with infer_types on, a column with a non-missing value is committed
\* as numeric exactly when 10 * (values that parse as numbers) >= 9 * (row
\* count); a column not committed as numeric is left unchanged unless it is
\* committed as datetime, and dtype_changes has an entry for a column exactly
\* when it was committed, with 'to' the committed kind.  No column is
\* committed as datetime in any state (the date-like pattern of line 153
\* raises), so every entry is 'numeric' and the conditions under which a
\* datetime commit is allowed have no case to examine.
C11_NumericCommitAtNineTenths ==
    (pc = "finalize" /\ cfg.infer_types)
    => /\ SameShape(df, prev)
       /\ \A j \in DOMAIN prev.cols :
             LET entries == {e \in report.dtype_changes : e.col = prev.cols[j].name}
             IN  IF /\ ~ColAllMissing(prev, j)
                    /\ 10 * ParsedCount(prev, j) >= 9 * NRows(prev)
                 THEN /\ CommittedNumeric(df, prev, j)
                      /\ entries = {[col |-> prev.cols[j].name,
                                     from |-> prev.cols[j].dtype, to |-> "numeric"]}
                 ELSE /\ Col(df, j) = Col(prev, j)
                      /\ df.cols[j] = prev.cols[j]
                      /\ entries = {}

\* Ten rows, nine of them number texts and one missing: the ratio is
\* exactly 9/10 of the row count and the column is committed.
C11_Witness ==
    /\ pc = "finalize"
    /\ cfg.infer_types
    /\ NRows(prev) = 10
    /\ ParsedCount(prev, 1) = 9
    /\ ColMissingCount(prev, 1) = 1
    /\ prev.cols[1].dtype = "object"
    /\ df.cols[1].dtype = "float64"
    /\ report.dtype_changes # {}

\* ---- C12 ---------------------------------------------------------------
\* The rows and the columns the report accounts for.
RowsAccounted ==
    report.nulls_dropped + report.blank_rows_dropped
        + report.duplicates_dropped + report.outliers_removed

ColsAccounted == report.blank_cols_dropped

\* C12: the returned report has rows_removed = original rows - cleaned rows
\* = nulls_dropped + blank_rows_dropped + duplicates_dropped +
\* outliers_removed and cols_removed = original columns - cleaned columns =
\* blank_cols_dropped, and no other stage removes a row or a column: after
\* every stage the rows and columns gone since the call began are those the
\* counts written so far account for.
C12_ReportAccounting ==
    /\ pc = "trim" => report.original_shape = shape(prev)
    /\ pc # "normalize" =>
          /\ report.original_shape[1] - NRows(df) = RowsAccounted
          /\ report.original_shape[2] - NCols(df) = ColsAccounted
    /\ pc = "done" =>
          /\ report.cleaned_shape = shape(df)
          /\ report.rows_removed = report.original_shape[1] - report.cleaned_shape[1]
          /\ report.rows_removed = RowsAccounted
          /\ report.cols_removed = report.original_shape[2] - report.cleaned_shape[2]
          /\ report.cols_removed = ColsAccounted

\* A call that dropped a blank row, a blank column and a duplicate row and
\* returned one row.
C12_Witness ==
    /\ pc = "done"
    /\ report.blank_rows_dropped = 1
    /\ report.duplicates_dropped = 1
    /\ report.rows_removed = 2
    /\ report.cols_removed = 1
    /\ shape(df) = <<1, 1>>

====
